---------------------------- MODULE Spec2Model ----------------------------
(***************************************************************************)
(* Model of src/background/services/chain/utils.ts: the pure converters    *)
(* between provider payloads (ethers polling provider, websocket           *)
(* subscription) and the wallet's block / transaction entities.            *)
(*                                                                         *)
(* JavaScript values are tagged records.  Strings are sequences of         *)
(* character codes (0..15 the hex digits '0'..'f', 16 the letter 'x', 17   *)
(* a letter that is no hex digit).  Integers, however large, are           *)
(* big-endian bit sequences without leading zeros (<< >> is zero), so a    *)
(* 256-bit word or a value beyond 2^53 is represented exactly.             *)
(***************************************************************************)
EXTENDS Integers, Sequences, FiniteSets, TLC

VARIABLES pc, fn, arg, asset, network, ret, origin

vars == <<pc, fn, arg, asset, network, ret, origin>>

-----------------------------------------------------------------------------
(* Bounds of the model *)

\* nonces of the generated payloads range over 0..MaxNonce
MaxNonce == 2

-----------------------------------------------------------------------------
(* Arbitrary-precision naturals as bit sequences *)

StripZeros(b) ==
  LET set == { i \in 1..Len(b) : b[i] # 0 }
  IN IF set = { } THEN << >>
     ELSE SubSeq(b, CHOOSE i \in set : \A j \in set : i <= j, Len(b))

Nibble(d) == << d \div 8, (d \div 4) % 2, (d \div 2) % 2, d % 2 >>

NibblesOf(ds) ==
  [ i \in 1..(4 * Len(ds)) |-> Nibble(ds[((i - 1) \div 4) + 1])[((i - 1) % 4) + 1] ]

\* the natural a sequence of hex digits denotes
HexToBits(ds) == StripZeros(NibblesOf(ds))

RECURSIVE NatToBits(_)
NatToBits(n) == IF n = 0 THEN << >> ELSE Append(NatToBits(n \div 2), n % 2)

RECURSIVE BitsToNat(_)
BitsToNat(b) ==
  IF b = << >> THEN 0 ELSE 2 * BitsToNat(SubSeq(b, 1, Len(b) - 1)) + b[Len(b)]

Zeros(n) == [i \in 1..n |-> 0]

GroupNibbles(b) ==
  [ i \in 1..(Len(b) \div 4) |->
      8 * b[4 * i - 3] + 4 * b[4 * i - 2] + 2 * b[4 * i - 1] + b[4 * i] ]

\* hex digits of a natural, without leading zeros (zero has no digit)
BitsToHex(b) == GroupNibbles(Zeros((4 - (Len(b) % 4)) % 4) \o b)

RECURSIVE Inc(_)
Inc(b) ==
  IF b = << >> THEN << 1 >>
  ELSE IF b[Len(b)] = 0 THEN SubSeq(b, 1, Len(b) - 1) \o << 1 >>
  ELSE Inc(SubSeq(b, 1, Len(b) - 1)) \o << 0 >>

\* IEEE-754 double nearest to a natural (round half to even, 53-bit
\* significand): what a JavaScript number holds for that integer
RoundToDouble(b) ==
  IF Len(b) <= 53 THEN b
  ELSE LET top  == SubSeq(b, 1, 53)
           rest == SubSeq(b, 54, Len(b))
           sticky == \E i \in 2..Len(rest) : rest[i] = 1
           up   == rest[1] = 1 /\ (sticky \/ top[53] = 1)
       IN (IF up THEN Inc(top) ELSE top) \o Zeros(Len(rest))

RECURSIVE DecValue(_)
DecValue(ds) ==
  IF ds = << >> THEN 0 ELSE 10 * DecValue(SubSeq(ds, 1, Len(ds) - 1)) + ds[Len(ds)]

RECURSIVE DecDigits(_)
DecDigits(n) == IF n < 10 THEN << n >> ELSE Append(DecDigits(n \div 10), n % 10)

-----------------------------------------------------------------------------
(* JavaScript values *)

Undefined == [t |-> "undefined"]
Null      == [t |-> "null"]
NaN       == [t |-> "NaN"]
Str(s)    == [t |-> "string", v |-> s]
Num(b)    == [t |-> "number", v |-> b]
Big(b)    == [t |-> "bigint", v |-> b]
BN(h)     == [t |-> "BigNumber", hex |-> h]
Thrown(e) == [t |-> "throw", err |-> e]

IsThrown(x) == x.t = "throw"

\* property read: a property the object lacks reads as undefined
Get(obj, f) == IF f \in DOMAIN obj THEN obj[f] ELSE Undefined

Truthy(x) ==
  /\ x.t \notin {"undefined", "null", "NaN", "throw"}
  /\ x.t \in {"string", "number", "bigint"} => x.v # << >>

\* a || b
OrElse(a, b) == IF Truthy(a) THEN a ELSE b

\* a ?? b
Coalesce(a, b) == IF a.t \in {"undefined", "null"} THEN b ELSE a

IsHexDigits(s) == \A i \in 1..Len(s) : s[i] \in 0..15
IsDecDigits(s) == \A i \in 1..Len(s) : s[i] \in 0..9
HasHexPrefix(s) == Len(s) >= 2 /\ s[1] = 0 /\ s[2] = 16

\* the longest prefix of s made of digits of the radix
DigitPrefix(s, radix) ==
  LET bad == { i \in 1..Len(s) : s[i] >= radix }
  IN IF bad = { } THEN s
     ELSE SubSeq(s, 1, (CHOOSE i \in bad : \A j \in bad : i <= j) - 1)

\* String.prototype.slice(-n)
SliceLast(s, n) == IF Len(s) <= n THEN s ELSE SubSeq(s, Len(s) - n + 1, Len(s))

\* parseInt(string, radix): optional 0x prefix for radix 16, then the
\* longest prefix of digits; NaN when there is none; the result is a double
parseInt(x, radix) ==
  IF x.t # "string" THEN NaN
  ELSE LET body == IF radix = 16 /\ HasHexPrefix(x.v)
                   THEN SubSeq(x.v, 3, Len(x.v)) ELSE x.v
           ds   == DigitPrefix(body, radix)
       IN IF ds = << >> THEN NaN
          ELSE IF radix = 16 THEN Num(RoundToDouble(HexToBits(ds)))
          ELSE Num(NatToBits(DecValue(ds)))

\* Number.prototype.toString() of a non-negative integer
numberToString(x) ==
  IF x.t = "number" THEN Str(DecDigits(BitsToNat(x.v)))
  ELSE IF x.t = "NaN" THEN Str(<< 17, 17, 17 >>)
  ELSE Thrown("TypeError")

\* Number(value)
NumberOf(x) ==
  CASE x.t = "number" -> x
    [] x.t = "null" -> Num(<< >>)
    [] x.t = "string" ->
         IF x.v = << >> THEN Num(<< >>)
         ELSE IF HasHexPrefix(x.v) /\ Len(x.v) > 2 /\ IsHexDigits(SubSeq(x.v, 3, Len(x.v)))
              THEN Num(RoundToDouble(HexToBits(SubSeq(x.v, 3, Len(x.v)))))
         ELSE IF IsDecDigits(x.v) THEN Num(NatToBits(DecValue(x.v)))
         ELSE NaN
    [] OTHER -> NaN

\* BigInt(value)
BigIntOf(x) ==
  CASE x.t = "bigint" -> x
    [] x.t = "number" -> Big(x.v)
    [] x.t = "NaN" -> Thrown("RangeError")
    [] x.t = "string" ->
         IF x.v = << >> THEN Big(<< >>)
         ELSE IF HasHexPrefix(x.v)
              THEN IF Len(x.v) > 2 /\ IsHexDigits(SubSeq(x.v, 3, Len(x.v)))
                   THEN Big(HexToBits(SubSeq(x.v, 3, Len(x.v))))
                   ELSE Thrown("SyntaxError")
         ELSE IF IsDecDigits(x.v) THEN Big(NatToBits(DecValue(x.v)))
         ELSE Thrown("SyntaxError")
    [] x.t = "throw" -> x
    [] OTHER -> Thrown("TypeError")

\* the _hex of an ethers BigNumber: "0x" and an even number of hex digits,
\* "0x00" for zero
BNHex(b) ==
  LET ds == BitsToHex(b)
  IN << 0, 16 >> \o (IF ds = << >> THEN << 0, 0 >>
                     ELSE IF Len(ds) % 2 = 1 THEN << 0 >> \o ds ELSE ds)

\* BigNumber.from(value)
BigNumberFrom(x) ==
  CASE x.t = "BigNumber" -> x
    [] x.t = "string" ->
         IF HasHexPrefix(x.v) /\ Len(x.v) > 2 /\ IsHexDigits(SubSeq(x.v, 3, Len(x.v)))
         THEN BN(BNHex(HexToBits(SubSeq(x.v, 3, Len(x.v)))))
         ELSE IF x.v # << >> /\ IsDecDigits(x.v) THEN BN(BNHex(NatToBits(DecValue(x.v))))
         ELSE Thrown("invalid BigNumber string")
    [] x.t = "number" ->
         IF Len(x.v) > 53 \/ (Len(x.v) = 53 /\ \A i \in 1..53 : x.v[i] = 1)
         THEN Thrown("overflow") ELSE BN(BNHex(x.v))
    [] x.t = "bigint" -> BN(BNHex(x.v))
    [] x.t = "throw" -> x
    [] OTHER -> Thrown("invalid BigNumber value")

BNBits(x) == HexToBits(SubSeq(x.hex, 3, Len(x.hex)))

\* BigNumber.prototype.toNumber(): throws beyond 53 bits
toNumber(x) ==
  IF x.t = "throw" THEN x
  ELSE IF x.t # "BigNumber" THEN Thrown("TypeError")
  ELSE IF Len(BNBits(x)) > 53 THEN Thrown("overflow")
  ELSE Num(BNBits(x))

\* BigNumber.prototype.toBigInt()
toBigInt(x) ==
  IF x.t = "throw" THEN x
  ELSE IF x.t # "BigNumber" THEN Thrown("TypeError")
  ELSE Big(BNBits(x))

\* the first exception raised while the listed expressions are evaluated
RECURSIVE FirstThrown(_)
FirstThrown(xs) ==
  IF xs = << >> THEN Undefined
  ELSE IF IsThrown(Head(xs)) THEN Head(xs) ELSE FirstThrown(Tail(xs))

Return(v)   == [ok |-> TRUE, err |-> "", val |-> v]
Throw(e)    == [ok |-> FALSE, err |-> e, val |-> Undefined]
NoResult    == [ok |-> FALSE, err |-> "", val |-> Undefined]

-----------------------------------------------------------------------------
(* The converters of utils.ts *)

\* the ETHEREUM constant imported from ../../constants
ETHEREUM == [name |-> "Ethereum", chainID |-> Str(<< 1 >>), baseAsset |-> "ETH"]

\* the hex string converted with Number(), which rounds instead of throwing
hexToNumberRounding(x) == NumberOf(x)

\* BigNumber.from(hexString).toNumber(), as used for number, timestamp, v, type
hexToNumber(x) == toNumber(BigNumberFrom(x))

blockFromWebsocketBlock(gethResult) ==
  LET blockHeight == hexToNumber(Get(gethResult, "number"))
      difficulty  == BigIntOf(Get(gethResult, "difficulty"))
      timestamp   == hexToNumber(Get(gethResult, "timestamp"))
      baseFee     == IF Truthy(Get(gethResult, "baseFeePerGas"))
                     THEN BigIntOf(Get(gethResult, "baseFeePerGas"))
                     ELSE Undefined
      thrown      == FirstThrown(<< blockHeight, difficulty, timestamp, baseFee >>)
  IN IF IsThrown(thrown) THEN Throw(thrown.err)
     ELSE Return([ hash          |-> Get(gethResult, "hash"),
                   blockHeight   |-> blockHeight,
                   parentHash    |-> Get(gethResult, "parentHash"),
                   difficulty    |-> difficulty,
                   timestamp     |-> timestamp,
                   baseFeePerGas |-> baseFee,
                   network       |-> ETHEREUM ])

\* x ? BigNumber.from(x) : undefined
optionalBigNumber(x) == IF Truthy(x) THEN BigNumberFrom(x) ELSE Undefined

\* baseTx with gasLimit taken from tx.value
baseTxGasFromValue(tx) ==
  [ nonce                |-> NumberOf(Get(tx, "nonce")),
    maxFeePerGas         |-> optionalBigNumber(Get(tx, "maxFeePerGas")),
    maxPriorityFeePerGas |-> optionalBigNumber(Get(tx, "maxPriorityFeePerGas")),
    to                   |-> Get(tx, "to"),
    from                 |-> Get(tx, "from"),
    data                 |-> OrElse(Get(tx, "input"), Str(<< >>)),
    chainId              |-> parseInt(tx.network.chainID, 10),
    value                |-> BigNumberFrom(Get(tx, "value")),
    gasLimit             |-> BigNumberFrom(Get(tx, "value")) ]

baseTx(tx) ==
  [ nonce                |-> NumberOf(Get(tx, "nonce")),
    maxFeePerGas         |-> optionalBigNumber(Get(tx, "maxFeePerGas")),
    maxPriorityFeePerGas |-> optionalBigNumber(Get(tx, "maxPriorityFeePerGas")),
    to                   |-> Get(tx, "to"),
    from                 |-> Get(tx, "from"),
    data                 |-> OrElse(Get(tx, "input"), Str(<< >>)),
    chainId              |-> parseInt(tx.network.chainID, 10),
    value                |-> BigNumberFrom(Get(tx, "value")),
    gasLimit             |-> BigNumberFrom(Get(tx, "gasLimit")) ]

ethersTxFromSignedTx(tx) ==
  LET b      == baseTx(tx)
      thrown == FirstThrown(<< b.maxFeePerGas, b.maxPriorityFeePerGas, b.value, b.gasLimit >>)
  IN IF IsThrown(thrown) THEN Throw(thrown.err)
     ELSE Return(b @@ [ r |-> Get(tx, "r"), s |-> Get(tx, "s"), v |-> Get(tx, "v") ])

\* x ? BigInt(x) : null
optionalBigInt(x) == IF Truthy(x) THEN BigIntOf(x) ELSE Null

\* tx.type !== undefined ? BigNumber.from(tx.type).toNumber() : 0
websocketType(tx) ==
  IF Get(tx, "type") # Undefined THEN hexToNumber(Get(tx, "type")) ELSE Num(<< >>)

txFromWebsocketTx(websocketTx, a, n) ==
  LET tx       == websocketTx
      gasLimit == BigIntOf(Get(tx, "gas"))
      gasPrice == BigIntOf(Get(tx, "gasPrice"))
      maxFee   == optionalBigInt(Get(tx, "maxFeePerGas"))
      maxPrio  == optionalBigInt(Get(tx, "maxPriorityFeePerGas"))
      v        == hexToNumber(Get(tx, "v"))
      value    == BigIntOf(Get(tx, "value"))
      type     == websocketType(tx)
      thrown   == FirstThrown(<< gasLimit, gasPrice, maxFee, maxPrio, v, value, type >>)
  IN IF IsThrown(thrown) THEN Throw(thrown.err)
     ELSE Return([ hash                 |-> Get(tx, "hash"),
                   to                   |-> Get(tx, "to"),
                   from                 |-> Get(tx, "from"),
                   gasLimit             |-> gasLimit,
                   gasPrice             |-> gasPrice,
                   maxFeePerGas         |-> maxFee,
                   maxPriorityFeePerGas |-> maxPrio,
                   input                |-> Get(tx, "input"),
                   r                    |-> OrElse(Get(tx, "r"), Undefined),
                   s                    |-> OrElse(Get(tx, "s"), Undefined),
                   v                    |-> v,
                   nonce                |-> NumberOf(Get(tx, "nonce")),
                   value                |-> value,
                   blockHash            |-> Coalesce(Get(tx, "blockHash"), Null),
                   blockHeight          |-> Coalesce(Get(tx, "blockNumber"), Null),
                   type                 |-> type,
                   asset                |-> a,
                   network              |-> n ])

\* the type check letting an absent type through
unknownTypeUnlessAbsent(tx) ==
  /\ Get(tx, "type").t \notin { "undefined", "null" }
  /\ Get(tx, "type") \notin { Num(<< >>), Num(<< 1 >>), Num(<< 1, 0 >>) }

\* tx.type !== 0 && tx.type !== 1 && tx.type !== 2
unknownType(tx) ==
  Get(tx, "type") \notin { Num(<< >>), Num(<< 1 >>), Num(<< 1, 0 >>) }

\* the asset compared with the native asset of the network argument
notNativeOfNetwork(a, n) == a.symbol # n.baseAsset

\* asset.symbol !== "ETH"
notEther(a, n) == a.symbol # "ETH"

\* let value = tx.value.toBigInt(); if not ETH, the last 64 characters of
\* tx.data parsed as a hexadecimal number
transferValue(tx, a, n) ==
  LET literal == toBigInt(Get(tx, "value"))
  IN IF IsThrown(literal) THEN literal
     ELSE IF notEther(a, n)
          THEN IF Get(tx, "data").t # "string" THEN Thrown("TypeError")
               ELSE BigIntOf(parseInt(Str(SliceLast(Get(tx, "data").v, 64)), 16))
          ELSE literal

\* x ? x.toBigInt() : null
optionalToBigInt(x) == IF Truthy(x) THEN toBigInt(x) ELSE Null

\* the signature test without tx.v
hasSignatureIgnoringV(tx) == Truthy(Get(tx, "r")) /\ Truthy(Get(tx, "s"))

\* tx.r && tx.s && tx.v
hasSignature(tx) == Truthy(Get(tx, "r")) /\ Truthy(Get(tx, "s")) /\ Truthy(Get(tx, "v"))

txFromEthersTx(tx, a, n) ==
  IF Get(tx, "hash") = Undefined THEN Throw("Malformed transaction")
  ELSE IF unknownType(tx) THEN Throw("Unknown transaction type")
  ELSE
    LET value    == transferValue(tx, a, n)
        nonce    == parseInt(numberToString(Get(tx, "nonce")), 10)
        nonceStr == numberToString(Get(tx, "nonce"))
        gasLimit == toBigInt(Get(tx, "gasLimit"))
        gasPrice == optionalToBigInt(Get(tx, "gasPrice"))
        maxFee   == optionalToBigInt(Get(tx, "maxFeePerGas"))
        maxPrio  == optionalToBigInt(Get(tx, "maxPriorityFeePerGas"))
        thrown   == FirstThrown(<< value, nonceStr, gasLimit, gasPrice, maxFee, maxPrio >>)
        newTx    == [ hash                 |-> Get(tx, "hash"),
                      from                 |-> Get(tx, "from"),
                      to                   |-> Get(tx, "to"),
                      nonce                |-> nonce,
                      gasLimit             |-> gasLimit,
                      gasPrice             |-> gasPrice,
                      maxFeePerGas         |-> maxFee,
                      maxPriorityFeePerGas |-> maxPrio,
                      value                |-> value,
                      input                |-> Get(tx, "data"),
                      type                 |-> Get(tx, "type"),
                      blockHash            |-> OrElse(Get(tx, "blockHash"), Null),
                      blockHeight          |-> OrElse(Get(tx, "blockNumber"), Null),
                      network              |-> n,
                      asset                |-> a ]
    IN IF IsThrown(thrown) THEN Throw(thrown.err)
       ELSE IF hasSignature(tx)
            THEN Return(newTx @@ [ r |-> Get(tx, "r"), s |-> Get(tx, "s"), v |-> Get(tx, "v") ])
            ELSE Return(newTx)

-----------------------------------------------------------------------------
(* Payloads the converters are applied to *)

Hex(ds)  == Str(<< 0, 16 >> \o ds)
Word(ds) == Zeros(64 - Len(ds)) \o ds

\* 10^18 = 0xde0b6b3a7640000, 10^10 = 0x2540be400, 21000 = 0x5208
OneEther == << 13, 14, 0, 11, 6, 11, 3, 10, 7, 6, 4, 0, 0, 0, 0 >>
TenGwei  == << 2, 5, 4, 0, 11, 14, 4, 0, 0 >>
GasUnits == << 5, 2, 0, 8 >>
\* 2^53 - 1, 2^53, 2^53 + 1
MaxSafe     == << 1 >> \o [i \in 1..13 |-> 15]
PastSafe    == << 2 >> \o Zeros(13)
PastSafeOdd == << 2 >> \o Zeros(12) \o << 1 >>

Hash1 == Hex(<< 10, 11 >>)
Hash2 == Hex(<< 12, 13 >>)
Addr1 == Hex(<< 10, 1 >>)
Addr2 == Hex(<< 10, 2 >>)
SigR  == Hex(<< 1 >>)
SigS  == Hex(<< 2 >>)

\* transfer(address,uint256) call data: selector a9059cbb, recipient word, amount word
TransferData(amount) ==
  Hex(<< 10, 9, 0, 5, 9, 12, 11, 11 >> \o Word(<< 10, 2 >>) \o Word(amount))

DataSet ==
  { Str(<< >>), Hex(<< >>), Hex(<< 6, 4 >>),
    TransferData(<< 6, 4 >>), TransferData(PastSafeOdd),
    TransferData(OneEther), TransferData([i \in 1..64 |-> 15]),
    Hex(<< 10, 9, 0, 5, 9, 12, 11, 11 >> \o [i \in 1..64 |-> 17]) }

Assets   == { [symbol |-> "ETH"], [symbol |-> "DAI"], [symbol |-> "MATIC"] }
POLYGON  == [name |-> "Polygon", chainID |-> Str(<< 1, 3, 7 >>), baseAsset |-> "MATIC"]
Networks == { ETHEREUM, POLYGON }
NoAsset  == [symbol |-> ""]

Nonces == { Num(NatToBits(k)) : k \in 0..MaxNonce }
Types  == { Undefined, Null, Num(<< >>), Num(<< 1 >>), Num(<< 1, 0 >>), Num(<< 1, 1 >>) }

PolledTx(h, ty, val, data, gp, mf, mp, r, s, v, nn, blk) ==
  [ hash |-> h, type |-> ty, from |-> Addr1, to |-> Addr2, nonce |-> nn,
    gasLimit |-> BN(BNHex(HexToBits(GasUnits))), gasPrice |-> gp,
    maxFeePerGas |-> mf, maxPriorityFeePerGas |-> mp,
    value |-> val, data |-> data, r |-> r, s |-> s, v |-> v,
    blockHash |-> blk[1], blockNumber |-> blk[2], chainId |-> Num(<< 1 >>) ]

OptFee    == { Undefined, BN(BNHex(HexToBits(TenGwei))) }
BlockRefs == { << Undefined, Undefined >>, << Hash2, Num(NatToBits(5)) >> }

\* polling-provider payloads: every shape of hash, type, fee fields,
\* signature fields, nonce and block reference for one transfer ...
PolledShapes ==
  { << PolledTx(h, ty, BN(BNHex(HexToBits(OneEther))), TransferData(<< 6, 4 >>),
                gp, mf, mp, r, s, v, nn, blk), a, ETHEREUM >> :
      h \in { Undefined, Hash1 }, ty \in Types, gp \in OptFee, mf \in OptFee,
      mp \in OptFee, r \in { Undefined, Str(<< >>), SigR }, s \in { Undefined, SigS },
      v \in { Undefined, Num(<< >>), Num(NatToBits(27)) }, nn \in Nonces,
      blk \in BlockRefs, a \in { [symbol |-> "ETH"], [symbol |-> "DAI"] } }

\* ... and every amount, call data, asset and network for one shape
PolledValues ==
  { << PolledTx(Hash1, ty, BN(BNHex(HexToBits(val))), data,
                BN(BNHex(HexToBits(TenGwei))), Undefined, Undefined,
                SigR, SigS, Num(NatToBits(27)), Num(<< >>), << Undefined, Undefined >>),
       a, n >> :
      ty \in { Num(<< >>), Num(<< 1, 0 >>) }, val \in { OneEther, << >>, PastSafeOdd },
      data \in DataSet, a \in Assets, n \in Networks }

PolledInputs == PolledShapes \cup PolledValues

OptHex(ds) == { Undefined, Null, Hex(ds) }

WebsocketTxs ==
  { [ hash |-> Hash1, to |-> Addr2, from |-> Addr1, gas |-> Hex(GasUnits),
      gasPrice |-> gp, maxFeePerGas |-> mf, maxPriorityFeePerGas |-> mp,
      input |-> Hex(<< >>), r |-> SigR, s |-> SigS, v |-> v,
      nonce |-> Hex(IF k = 0 THEN << 0 >> ELSE BitsToHex(NatToBits(k))),
      value |-> val, blockHash |-> blk[1], blockNumber |-> blk[2], type |-> ty ] :
      gp \in OptHex(TenGwei), mf \in OptHex(TenGwei), mp \in { Undefined, Hex(<< 1 >>) },
      v \in { Hex(<< 1, 11 >>), Hex(<< 0 >>) }, k \in 0..MaxNonce,
      val \in { Hex(OneEther), Hex(<< 0 >>) },
      blk \in { << Undefined, Undefined >>, << Null, Null >>, << Hash2, Hex(<< 1, 0 >>) >> },
      ty \in { Undefined, Null, Hex(<< 0 >>), Hex(<< 1 >>), Hex(<< 2 >>), Hex(<< 3 >>) } }

HeightSet == { Hex(<< 0 >>), Hex(<< 0, 0, 1, 0 >>), Hex(MaxSafe), Hex(PastSafe),
               Hex(PastSafeOdd), Hex([i \in 1..16 |-> 15]) }

WebsocketBlocks ==
  { [ hash |-> h, parentHash |-> ph, number |-> num, timestamp |-> ts,
      difficulty |-> d, baseFeePerGas |-> bf ] :
      h \in { Undefined, Hash1 }, ph \in { Undefined, Hash2 },
      num \in HeightSet, ts \in HeightSet,
      d \in { Hex(<< 2 >>), Hex([i \in 1..20 |-> 15]) },
      bf \in { Undefined, Hex(TenGwei) } }

SignedTxs ==
  { [ hash |-> Hash1, from |-> Addr1, to |-> Addr2, nonce |-> nn,
      gasLimit |-> Big(HexToBits(GasUnits)), gasPrice |-> gp,
      maxFeePerGas |-> mf, maxPriorityFeePerGas |-> mf,
      value |-> Big(HexToBits(val)), input |-> data, type |-> ty,
      blockHash |-> Null, blockHeight |-> Null, network |-> n, asset |-> a,
      r |-> SigR, s |-> SigS, v |-> v ] :
      nn \in Nonces, gp \in { Null, Big(HexToBits(TenGwei)) },
      mf \in { Null, Big(HexToBits(TenGwei)) },
      val \in { OneEther, << >>, PastSafeOdd },
      data \in { Null, TransferData(<< 6, 4 >>) },
      ty \in { Num(<< >>), Num(<< 1, 0 >>) }, n \in Networks,
      a \in { [symbol |-> "ETH"], [symbol |-> "DAI"] },
      v \in { Num(<< >>), Num(NatToBits(27)) } }

-----------------------------------------------------------------------------
(* The state machine: a converter is applied once to the payload drawn    *)
(* initially; the result of ethersTxFromSignedTx may be handed back to    *)
(* txFromEthersTx with the asset and network of the signed transaction.   *)

Init ==
  /\ pc = "ready"
  /\ ret = NoResult
  /\ origin = Undefined
  /\ \/ /\ fn = "txFromEthersTx"
        /\ \E i \in PolledInputs : arg = i[1] /\ asset = i[2] /\ network = i[3]
     \/ /\ fn = "txFromWebsocketTx"
        /\ arg \in WebsocketTxs
        /\ asset \in { [symbol |-> "ETH"], [symbol |-> "DAI"] }
        /\ network = ETHEREUM
     \/ /\ fn = "blockFromWebsocketBlock"
        /\ arg \in WebsocketBlocks
        /\ asset = NoAsset
        /\ network = ETHEREUM
     \/ /\ fn = "ethersTxFromSignedTx"
        /\ arg \in SignedTxs
        /\ asset = arg.asset
        /\ network = arg.network

CallTxFromEthersTx ==
  /\ pc = "ready" /\ fn = "txFromEthersTx"
  /\ ret' = txFromEthersTx(arg, asset, network)
  /\ pc' = "done"
  /\ UNCHANGED << fn, arg, asset, network, origin >>

CallTxFromWebsocketTx ==
  /\ pc = "ready" /\ fn = "txFromWebsocketTx"
  /\ ret' = txFromWebsocketTx(arg, asset, network)
  /\ pc' = "done"
  /\ UNCHANGED << fn, arg, asset, network, origin >>

CallBlockFromWebsocketBlock ==
  /\ pc = "ready" /\ fn = "blockFromWebsocketBlock"
  /\ ret' = blockFromWebsocketBlock(arg)
  /\ pc' = "done"
  /\ UNCHANGED << fn, arg, asset, network, origin >>

CallEthersTxFromSignedTx ==
  /\ pc = "ready" /\ fn = "ethersTxFromSignedTx"
  /\ ret' = ethersTxFromSignedTx(arg)
  /\ pc' = "done"
  /\ UNCHANGED << fn, arg, asset, network, origin >>

\* the provider transaction built from a signed transaction is re-parsed
Reparse ==
  /\ pc = "done" /\ fn = "ethersTxFromSignedTx" /\ ret.ok
  /\ fn' = "txFromEthersTx"
  /\ arg' = ret.val
  /\ origin' = arg
  /\ ret' = NoResult
  /\ pc' = "ready"
  /\ UNCHANGED << asset, network >>

Next ==
  \/ CallTxFromEthersTx
  \/ CallTxFromWebsocketTx
  \/ CallBlockFromWebsocketBlock
  \/ CallEthersTxFromSignedTx
  \/ Reparse

Spec == Init /\ [][Next]_vars

-----------------------------------------------------------------------------
(* Properties *)

Done(f) == pc = "done" /\ fn = f

Absent(x) == x.t \in { "undefined", "null" }

\* a non-empty string or a non-zero number
NonEmpty(x) == ~Absent(x) /\ (x.t \in { "string", "number" } => x.v # << >>)

KnownType(x) == x.t = "number" /\ x.v \in { << >>, << 1 >>, << 1, 0 >> }

\* the natural a "0x..." string denotes
HexValue(x) == HexToBits(SubSeq(x.v, 3, Len(x.v)))

\* the natural a provider big number denotes
BigNumberValue(x) == HexToBits(SubSeq(x.hex, 3, Len(x.hex)))

UnsignedFields ==
  { "hash", "from", "to", "nonce", "gasLimit", "gasPrice", "maxFeePerGas",
    "maxPriorityFeePerGas", "value", "input", "type", "blockHash", "blockHeight",
    "network", "asset" }

SignatureFields == { "r", "s", "v" }

\* C1: txFromEthersTx, on a payload that passes the hash and type checks,
\* returns the signed variant carrying the payload's r, s, v verbatim when
\* r, s and v are all present and non-empty, and the unsigned variant (no
\* r, s, v field) when any of them is absent; the variants differ in nothing
\* but these three fields.
C1_SignedIffSignature ==
  (Done("txFromEthersTx") /\ ret.ok) =>
    LET r == Get(arg, "r")
        s == Get(arg, "s")
        v == Get(arg, "v")
    IN /\ (NonEmpty(r) /\ NonEmpty(s) /\ NonEmpty(v)) =>
            /\ DOMAIN ret.val = UnsignedFields \cup SignatureFields
            /\ ret.val.r = r /\ ret.val.s = s /\ ret.val.v = v
       /\ (Absent(r) \/ Absent(s) \/ Absent(v)) => DOMAIN ret.val = UnsignedFields
       /\ DOMAIN ret.val \in { UnsignedFields, UnsignedFields \cup SignatureFields }

C1_Witness ==
  /\ Done("txFromEthersTx") /\ ret.ok
  /\ NonEmpty(Get(arg, "r")) /\ NonEmpty(Get(arg, "s")) /\ NonEmpty(Get(arg, "v"))
  /\ "r" \in DOMAIN ret.val

\* C2 as stated: re-parsing ethersTxFromSignedTx(t) with txFromEthersTx, with
\* t's asset and network, succeeds and yields nonce, to, from, value,
\* gasLimit, r, s, v equal to those of t.
C2_RoundTripAsStated ==
  (Done("txFromEthersTx") /\ origin # Undefined) =>
    /\ ret.ok
    /\ ret.val.nonce = origin.nonce
    /\ ret.val.to = origin.to
    /\ ret.val.from = origin.from
    /\ ret.val.value = origin.value
    /\ ret.val.gasLimit = origin.gasLimit
    /\ Get(ret.val, "r") = origin.r
    /\ Get(ret.val, "s") = origin.s
    /\ Get(ret.val, "v") = origin.v

\* C2 amended: ethersTxFromSignedTx(t) succeeds for every signed transaction
\* t and carries nonce, to, from, value, gasLimit, r, s, v equal to those of
\* t, but no hash and no type, so re-parsing it with txFromEthersTx fails
\* with "Malformed transaction".
C2_RoundTripAmended ==
  /\ Done("ethersTxFromSignedTx") =>
       /\ ret.ok
       /\ ret.val.nonce = arg.nonce
       /\ ret.val.to = arg.to
       /\ ret.val.from = arg.from
       /\ Big(BigNumberValue(ret.val.value)) = arg.value
       /\ Big(BigNumberValue(ret.val.gasLimit)) = arg.gasLimit
       /\ ret.val.r = arg.r /\ ret.val.s = arg.s /\ ret.val.v = arg.v
       /\ "hash" \notin DOMAIN ret.val
       /\ "type" \notin DOMAIN ret.val
  /\ (Done("txFromEthersTx") /\ origin # Undefined) =>
       /\ ~ret.ok
       /\ ret.err = "Malformed transaction"

C2_Witness ==
  /\ Done("txFromEthersTx") /\ origin # Undefined
  /\ arg.value = BN(BNHex(HexToBits(OneEther)))
  /\ ~ret.ok

\* C3 as stated: txFromEthersTx fails with the unknown-type error for every
\* payload whose type is not 0, 1 or 2, and an entity returned for a payload
\* with a hash and a type in {0,1,2} has the payload's type.
C3_UnknownTypeAsStated ==
  Done("txFromEthersTx") =>
    /\ ~KnownType(Get(arg, "type")) =>
         (~ret.ok /\ ret.err = "Unknown transaction type" /\ ret.val = Undefined)
    /\ ret.ok => (KnownType(ret.val.type) /\ ret.val.type = Get(arg, "type"))

\* C3 amended: txFromEthersTx fails with the unknown-type error for every
\* payload that has a hash and whose type is not 0, 1 or 2 (without a hash
\* the failure is "Malformed transaction", whatever the type), and an entity
\* returned has the payload's type, one of 0, 1, 2.
C3_UnknownTypeAmended ==
  Done("txFromEthersTx") =>
    /\ (Get(arg, "hash") # Undefined /\ ~KnownType(Get(arg, "type"))) =>
         (~ret.ok /\ ret.err = "Unknown transaction type" /\ ret.val = Undefined)
    /\ Get(arg, "hash") = Undefined =>
         (~ret.ok /\ ret.err = "Malformed transaction" /\ ret.val = Undefined)
    /\ ret.ok => (KnownType(ret.val.type) /\ ret.val.type = Get(arg, "type"))

C3_Witness ==
  /\ Done("txFromEthersTx")
  /\ Get(arg, "hash") # Undefined
  /\ Get(arg, "type") = Num(<< 1, 1 >>)
  /\ ret.err = "Unknown transaction type"

\* C4: every transaction returned by txFromEthersTx or txFromWebsocketTx has
\* type 0, 1 or 2.
C4_ReturnedTypeKnown ==
  (pc = "done" /\ fn \in { "txFromEthersTx", "txFromWebsocketTx" } /\ ret.ok) =>
    KnownType(ret.val.type)

\* the value txFromEthersTx reads from the last 64 characters of tx.data
InputDerived(tx) == BigIntOf(parseInt(Str(SliceLast(Get(tx, "data").v, 64)), 16))

C6_TokenValueExact ==
  (Done("txFromEthersTx") /\ asset.symbol # "ETH" /\ Get(arg, "hash") # Undefined
     /\ KnownType(Get(arg, "type")) /\ Len(arg.data.v) >= 64) =>
    LET word == SliceLast(arg.data.v, 64)
    IN IF IsHexDigits(word)
       THEN ret.ok /\ ret.val.value = Big(HexToBits(word))
       ELSE ~ret.ok

\* C7: an absent gasPrice, maxFeePerGas, maxPriorityFeePerGas, blockHash,
\* block number or type does not make txFromWebsocketTx fail: the fee and
\* block fields come out null, an absent type comes out 0, and every present
\* hex field comes out as the integer it encodes.
C7_AbsentOptionalFields ==
  Done("txFromWebsocketTx") =>
    /\ ret.ok
    /\ ret.val.gasPrice = (IF Absent(arg.gasPrice) THEN Null ELSE Big(HexValue(arg.gasPrice)))
    /\ ret.val.maxFeePerGas =
         (IF Absent(arg.maxFeePerGas) THEN Null ELSE Big(HexValue(arg.maxFeePerGas)))
    /\ ret.val.maxPriorityFeePerGas =
         (IF Absent(arg.maxPriorityFeePerGas) THEN Null
          ELSE Big(HexValue(arg.maxPriorityFeePerGas)))
    /\ Absent(arg.blockHash) => ret.val.blockHash = Null
    /\ Absent(arg.blockNumber) => ret.val.blockHeight = Null
    /\ ret.val.type = (IF Absent(arg.type) THEN Num(<< >>) ELSE Num(HexValue(arg.type)))
    /\ ret.val.gasLimit = Big(HexValue(arg.gas))
    /\ ret.val.nonce = Num(HexValue(arg.nonce))
    /\ ret.val.value = Big(HexValue(arg.value))
    /\ ret.val.v = Num(HexValue(arg.v))

\* C8: blockFromWebsocketBlock fails for every payload without hash or
\* without parentHash; no block lacking either is returned.
C8_MissingHashFails ==
  Done("blockFromWebsocketBlock") =>
    /\ (Absent(Get(arg, "hash")) \/ Absent(Get(arg, "parentHash"))) => ~ret.ok
    /\ ret.ok => (~Absent(ret.val.hash) /\ ~Absent(ret.val.parentHash))

\* C9: blockFromWebsocketBlock fails with an overflow error when number or
\* timestamp decodes to more than 2^53 - 1 (more than 53 bits), and
\* otherwise returns blockHeight and timestamp equal to the decoded integers.
C9_SafeIntegerOverflow ==
  Done("blockFromWebsocketBlock") =>
    LET height == HexValue(arg.number)
        time   == HexValue(arg.timestamp)
    IN IF Len(height) > 53 \/ Len(time) > 53
       THEN ~ret.ok /\ ret.err = "overflow" /\ ret.val = Undefined
       ELSE /\ ret.ok
            /\ ret.val.blockHeight = Num(height)
            /\ ret.val.timestamp = Num(time)

C9_Witness ==
  /\ Done("blockFromWebsocketBlock")
  /\ arg.number = Hex(MaxSafe)
  /\ arg.timestamp = Hex(PastSafe)
  /\ ret.err = "overflow"

\* C10: every transaction of type 0 returned by txFromEthersTx or
\* txFromWebsocketTx has a gasPrice and null maxFeePerGas and
\* maxPriorityFeePerGas.
C10_LegacyFeeFields ==
  (pc = "done" /\ fn \in { "txFromEthersTx", "txFromWebsocketTx" } /\ ret.ok
     /\ ret.val.type = Num(<< >>)) =>
    /\ ~Absent(ret.val.gasPrice)
    /\ ret.val.maxFeePerGas = Null
    /\ ret.val.maxPriorityFeePerGas = Null

=============================================================================
